---- MODULE Spec2Model ----
(***************************************************************************)
(* Model of the block virtual DOM of src/src/index.ts (h, Hole, render,    *)
(* block, mount, patch) over a heap of DOM nodes.                          *)
(*                                                                         *)
(* The document is a heap: a sequence of nodes, a node's identity is its   *)
(* index.  0 stands for JavaScript's undefined wherever a node is read.    *)
(* A handler that throws stops where the exception is raised and keeps the *)
(* writes made before it.                                                  *)
(***************************************************************************)
EXTENDS Integers, Sequences, FiniteSets, TLC

(* ---------------------------------------------------------------------- *)
(* Bounds of the model                                                    *)
(* ---------------------------------------------------------------------- *)
MaxInsts == 2
MaxMounts == 2
MaxNodes == 24

(* ---------------------------------------------------------------------- *)
(* Values                                                                 *)
(* ---------------------------------------------------------------------- *)
Str(s) == [kind |-> "str", s |-> s]
Num(n) == [kind |-> "num", n |-> n]
Blk(i) == [kind |-> "block", inst |-> i]
Unset == [kind |-> "unset"]

\* String(value), as document.createTextNode and textContent apply it;
\* undefined reaches only the textContent setter, which takes it as null
ToText(v) ==
  CASE v.kind = "str" -> v.s
    [] v.kind = "num" -> (IF v.n = 0 THEN "0" ELSE "1")
    [] v.kind = "block" -> "[object Object]"
    [] OTHER -> ""

(* ---------------------------------------------------------------------- *)
(* Virtual nodes                                                          *)
(* ---------------------------------------------------------------------- *)
\* a string child of h(...)
T(s) == [kind |-> "text", text |-> s]
Hole(k) == [kind |-> "hole", key |-> k]
\* props is the sequence of (name, value) in for..in order
P(name, value) == [name |-> name, value |-> value]
h(type, props, children) ==
  [kind |-> "el", type |-> type, props |-> props, children |-> children]

AttrNames == {"id", "onX", "x"}

(* ---------------------------------------------------------------------- *)
(* Node-tree primitive                                                    *)
(* ---------------------------------------------------------------------- *)
ElementNode(tag) ==
  [kind |-> "el", tag |-> tag, props |-> [a \in AttrNames |-> Unset],
   children |-> <<>>, text |-> "", parent |-> 0]
TextNode(s) ==
  [kind |-> "text", tag |-> "#text", props |-> [a \in AttrNames |-> Unset],
   children |-> <<>>, text |-> s, parent |-> 0]

\* node.childNodes[i] for a 0-based i; 0 when there is no such child
ChildAt(hp, id, i) ==
  IF i + 1 \in DOMAIN hp[id].children THEN hp[id].children[i + 1] ELSE 0

\* el[name] = value
SetProperty(hp, id, name, value) ==
  [hp EXCEPT ![id].props[name] = value]

RECURSIVE Orphan(_, _, _)
Orphan(hp, kids, k) ==
  IF k > Len(kids) THEN hp
  ELSE Orphan([hp EXCEPT ![kids[k]].parent = 0], kids, k + 1)

\* node.textContent = s
SetTextContent(hp, id, s) ==
  IF hp[id].kind = "text" THEN [hp EXCEPT ![id].text = s]
  ELSE
    LET cleared == [Orphan(hp, hp[id].children, 1) EXCEPT ![id].children = <<>>]
    IN IF s = "" THEN cleared
       ELSE LET t == Len(cleared) + 1
            IN [Append(cleared, [TextNode(s) EXCEPT !.parent = id])
                  EXCEPT ![id].children = <<t>>]

\* parent.insertBefore(child, parent.childNodes[i]) for a parentless child;
\* an absent reference node appends
InsertAt(hp, parent, child, i) ==
  LET kids == hp[parent].children
      at == IF i + 1 \in DOMAIN kids THEN i + 1 ELSE Len(kids) + 1
  IN [hp EXCEPT ![parent].children =
                   SubSeq(kids, 1, at - 1) \o <<child>> \o SubSeq(kids, at, Len(kids)),
                ![child].parent = parent]

\* parent.appendChild(child) for a parentless child
AppendChild(hp, parent, child) ==
  [hp EXCEPT ![parent].children = Append(@, child), ![child].parent = parent]

\* node.cloneNode(true): [heap, id]
RECURSIVE CloneNode(_, _)
RECURSIVE CloneChildren(_, _, _, _)
CloneNode(hp, id) ==
  LET new == Len(hp) + 1
      hp1 == Append(hp, [hp[id] EXCEPT !.children = <<>>, !.parent = 0])
  IN [heap |-> CloneChildren(hp1, hp[id].children, 1, new), id |-> new]
CloneChildren(hp, kids, k, new) ==
  IF k > Len(kids) THEN hp
  ELSE LET c == CloneNode(hp, kids[k])
       IN CloneChildren(AppendChild(c.heap, new, c.id), kids, k + 1, new)

(* ---------------------------------------------------------------------- *)
(* render                                                                 *)
(* ---------------------------------------------------------------------- *)
AttributeEdit(path, name, key) ==
  [type |-> "attribute", path |-> path, attribute |-> name, hole |-> key]
ChildEdit(path, i, key) ==
  [type |-> "child", path |-> path, index |-> i, hole |-> key]

\* the props loop assigning a placeholder like any other value
RECURSIVE RenderPropsNoContinue(_, _, _, _, _, _)
RenderPropsNoContinue(hp, edits, props, k, el, path) ==
  IF k > Len(props) THEN [heap |-> hp, edits |-> edits]
  ELSE RenderPropsNoContinue(
         SetProperty(hp, el, props[k].name, props[k].value),
         IF props[k].value.kind = "hole"
         THEN Append(edits, AttributeEdit(path, props[k].name, props[k].value.key))
         ELSE edits,
         props, k + 1, el, path)
\* the for..in loop over vnode.props from position k: [heap, edits]
RECURSIVE RenderProps(_, _, _, _, _, _)
RenderProps(hp, edits, props, k, el, path) ==
  IF k > Len(props) THEN [heap |-> hp, edits |-> edits]
  ELSE IF props[k].value.kind = "hole"
       THEN RenderProps(hp, Append(edits, AttributeEdit(path, props[k].name, props[k].value.key)),
                        props, k + 1, el, path)
       ELSE RenderProps(SetProperty(hp, el, props[k].name, props[k].value), edits,
                        props, k + 1, el, path)

\* the path handed to the child at 0-based index i: [...path, i]
SamePath(path, i) == path
ChildPath(path, i) == Append(path, i)

\* render(vnode, edits, path): [heap, edits, id]
RECURSIVE render(_, _, _, _)
RECURSIVE RenderChildren(_, _, _, _, _, _)
render(hp, edits, vnode, path) ==
  IF vnode.kind = "text"
  THEN [heap |-> Append(hp, TextNode(vnode.text)), edits |-> edits, id |-> Len(hp) + 1]
  ELSE
    LET el == Len(hp) + 1
        r1 == RenderProps(Append(hp, ElementNode(vnode.type)), edits, vnode.props, 1, el, path)
        r2 == RenderChildren(r1.heap, r1.edits, vnode.children, 0, el, path)
    IN [heap |-> r2.heap, edits |-> r2.edits, id |-> el]
\* the loop over vnode.children from 0-based index i: [heap, edits]
RenderChildren(hp, edits, children, i, el, path) ==
  IF i >= Len(children) THEN [heap |-> hp, edits |-> edits]
  ELSE IF children[i + 1].kind = "hole"
       THEN RenderChildren(hp, Append(edits, ChildEdit(path, i, children[i + 1].key)),
                           children, i + 1, el, path)
       ELSE LET r == render(hp, edits, children[i + 1], ChildPath(path, i))
            IN RenderChildren(AppendChild(r.heap, el, r.id), r.edits, children, i + 1, el, path)

(* ---------------------------------------------------------------------- *)
(* Templates: what fn(proxy) returns; props.k is Hole(k)                  *)
(* ---------------------------------------------------------------------- *)
Templates ==
  << h("button", <<P("onX", Hole("n"))>>, <<>>),
     h("button", <<>>, <<Hole("n")>>),
     h("div", <<P("id", Str("foo"))>>,
       <<T("hi"), Hole("n"), h("span", <<P("x", Hole("m"))>>, <<T("z")>>)>>),
     h("p", <<>>, <<T("static")>>),
     h("div", <<>>, <<Hole("c")>>),
     h("div", <<>>,
       <<T("hi"), Hole("n"), Hole("c"), h("span", <<P("x", Hole("n"))>>, <<>>)>>) >>

\* the keys a template reads from props
RECURSIVE KeysOf(_)
KeysOf(vnode) ==
  CASE vnode.kind = "hole" -> {vnode.key}
    [] vnode.kind = "text" -> {}
    [] OTHER ->
         {vnode.props[k].value.key : k \in {j \in DOMAIN vnode.props : vnode.props[j].value.kind = "hole"}}
         \cup UNION {KeysOf(vnode.children[k]) : k \in DOMAIN vnode.children}

TextVals == {Str("a"), Num(0)}

\* the programs run: the templates a page compiles, in order; a template
\* with the nested-block key "c" comes after the template it nests
Programs == {<<1>>, <<2>>, <<3>>, <<4>>, <<2, 5>>, <<4, 6>>}

(* ---------------------------------------------------------------------- *)
(* State                                                                  *)
(* ---------------------------------------------------------------------- *)
VARIABLES
  heap,     \* the DOM nodes ever created
  defs,     \* the compiled blocks: [tpl, root, edits] (the closure of block(fn))
  insts,    \* the block instances: [def, props, elements, el]; el is the
            \* root of the instance's latest clone (mount's local el), 0
            \* while mount was never called
  nmounts,  \* number of top-level mount calls made
  lastOp    \* the last call made and how it ended: the instance called,
            \* the argument, whether it threw, the writes it made to nodes

vars == <<heap, defs, insts, nmounts, lastOp>>

\* the two mount points of the page; the first has prior content
Hosts == {1, 2}
InitHeap ==
  << [ElementNode("root") EXCEPT !.children = <<3>>],
     ElementNode("root"),
     [TextNode("old") EXCEPT !.parent = 1] >>

NoOp == [op |-> "none", inst |-> 0, arg |-> 0, parent |-> 0, err |-> FALSE, writes |-> 0]

Init ==
  /\ heap = InitHeap
  /\ defs = <<>>
  /\ insts = <<>>
  /\ nmounts = 0
  /\ lastOp = NoOp

\* props[key]; Unset is undefined
Lookup(props, key) == IF key \in DOMAIN props THEN props[key] ELSE Unset

\* the state a handler threads through its statements
Begin == [heap |-> heap, insts |-> insts, err |-> FALSE, writes |-> 0]
Throw(st) == [st EXCEPT !.err = TRUE]
EditsOf(st, i) == defs[st.insts[i].def].edits

(* ---------------------------------------------------------------------- *)
(* block(fn) and the instance factory                                     *)
(* ---------------------------------------------------------------------- *)
\* const edits = []; const root = render(vnode, edits)
Compile(hp, t) ==
  LET r == render(hp, <<>>, Templates[t], <<>>)
  IN [heap |-> r.heap, def |-> [tpl |-> t, root |-> r.id, edits |-> r.edits]]

Block(t) ==
  /\ \E prog \in Programs :
       /\ Len(defs) < Len(prog)
       /\ prog[Len(defs) + 1] = t
       /\ \A d \in DOMAIN defs : defs[d].tpl = prog[d]
  /\ LET c == Compile(heap, t)
     IN /\ heap' = c.heap
        /\ defs' = Append(defs, c.def)
  /\ lastOp' = [NoOp EXCEPT !.op = "block"]
  /\ UNCHANGED <<insts, nmounts>>

\* new Array(edits.length)
NewElements(d) == [k \in 1..Len(defs[d].edits) |-> 0]

\* the props an instance of definition d is built with: text for the text
\* keys, an existing instance of an earlier definition for the nested-block
\* key "c"
PropsFor(d) ==
  LET keys == KeysOf(Templates[defs[d].tpl])
  IN {p \in [keys -> TextVals \cup {Blk(j) : j \in {i \in DOMAIN insts : insts[i].def < d}}] :
        \A k \in keys : (p[k].kind = "block") <=> (k = "c")}

Create(d, props) ==
  /\ Cardinality({i \in DOMAIN insts : insts[i].def = d}) < MaxInsts
  /\ \A i \in DOMAIN insts : insts[i].def <= d
  /\ insts' = Append(insts, [def |-> d, props |-> props, elements |-> NewElements(d), el |-> 0])
  /\ lastOp' = [NoOp EXCEPT !.op = "create", !.inst = Len(insts) + 1]
  /\ UNCHANGED <<heap, defs, nmounts>>

(* ---------------------------------------------------------------------- *)
(* mount                                                                  *)
(* ---------------------------------------------------------------------- *)
\* thisEl = thisEl.childNodes[edit.path[k]] for each k: [err, node]
RECURSIVE Walk(_, _, _, _)
Walk(hp, node, path, k) ==
  IF k > Len(path) THEN [err |-> FALSE, node |-> node]
  ELSE IF node = 0 THEN [err |-> TRUE, node |-> 0]
  ELSE Walk(hp, ChildAt(hp, node, path[k]), path, k + 1)

\* the node mount writes into: root.cloneNode(true)
MountTargetShared(hp, root) == [heap |-> hp, id |-> root]
MountTarget(hp, root) == CloneNode(hp, root)

\* parent.textContent = ''
ClearParentKeep(hp, parent) == hp
ClearParent(hp, parent) == SetTextContent(hp, parent, "")

\* where a dynamic text node goes:
\* thisEl.insertBefore(textNode, thisEl.childNodes[edit.index])
InsertTextAtEnd(hp, thisEl, textNode, index) == AppendChild(hp, thisEl, textNode)
InsertText(hp, thisEl, textNode, index) == InsertAt(hp, thisEl, textNode, index)

RECURSIVE MountBlock(_, _, _)
RECURSIVE MountEdits(_, _, _, _)
\* mount(parent) of instance i
MountBlock(st, i, parent) ==
  LET c == MountTarget(st.heap, defs[st.insts[i].def].root)
      st1 == [st EXCEPT !.heap = c.heap, !.insts[i].el = c.id]
  IN IF parent = 0 THEN Throw(st1)
     ELSE LET hp1 == ClearParent(st1.heap, parent)
              st2 == [st1 EXCEPT !.heap = hp1, !.writes = @ + 1]
          IN IF hp1[parent].kind = "text" THEN Throw(st2)
             ELSE MountEdits([st2 EXCEPT !.heap = AppendChild(hp1, parent, c.id),
                                         !.writes = @ + 1],
                             i, c.id, 1)
\* the loop over edits from position k
MountEdits(st, i, el, k) ==
  IF st.err \/ k > Len(EditsOf(st, i)) THEN st
  ELSE
    LET edit == EditsOf(st, i)[k]
        w == Walk(st.heap, el, edit.path, 1)
        thisEl == w.node
        st1 == [st EXCEPT !.insts[i].elements[k] = thisEl]
        value == Lookup(st.insts[i].props, edit.hole)
    IN IF w.err THEN Throw(st)
       ELSE IF edit.type = "attribute"
       THEN IF thisEl = 0 THEN Throw(st1)
            ELSE MountEdits([st1 EXCEPT !.heap = SetProperty(@, thisEl, edit.attribute, value),
                                        !.writes = @ + 1],
                            i, el, k + 1)
       ELSE IF value.kind = "unset" THEN Throw(st1)
       ELSE IF value.kind = "block"
       THEN MountEdits(MountBlock(st1, value.inst, thisEl), i, el, k + 1)
       ELSE
         LET hpT == Append(st1.heap, TextNode(ToText(value)))
             textNode == Len(hpT)
         IN IF thisEl = 0 \/ hpT[IF thisEl = 0 THEN 1 ELSE thisEl].kind = "text"
            THEN Throw([st1 EXCEPT !.heap = hpT])
            ELSE MountEdits([st1 EXCEPT !.heap = InsertText(hpT, thisEl, textNode, edit.index),
                                        !.writes = @ + 1],
                            i, el, k + 1)

Mount(i, parent) ==
  /\ nmounts < MaxMounts
  /\ LET st == MountBlock(Begin, i, parent)
     IN /\ heap' = st.heap
        /\ insts' = st.insts
        /\ lastOp' = [op |-> "mount", inst |-> i, arg |-> 0, parent |-> parent,
                      err |-> st.err, writes |-> st.writes]
  /\ nmounts' = nmounts + 1
  /\ UNCHANGED defs

(* ---------------------------------------------------------------------- *)
(* patch                                                                  *)
(* ---------------------------------------------------------------------- *)
\* what the nested patch is called with: newBlock.edits[i].hole
NestedArg(st, newBlock, k) == Str(EditsOf(st, newBlock.inst)[k].hole)

\* the dirty check: value === newValue
NeverSame(value, newValue) == FALSE
Same(value, newValue) == value = newValue

\* the reference mount cached for edit k of instance i: elements[k]
SharedElement(st, i, k) ==
  LET same == {j \in DOMAIN st.insts : st.insts[j].def = st.insts[i].def /\ st.insts[j].el # 0}
  IN IF same = {} THEN 0
     ELSE st.insts[CHOOSE j \in same : \A m \in same : st.insts[j].el >= st.insts[m].el].elements[k]
CachedElement(st, i, k) == st.insts[i].elements[k]

\* the node patch rewrites: thisEl.childNodes[edit.index]
FirstChild(hp, thisEl, index) == ChildAt(hp, thisEl, 0)
DynamicChild(hp, thisEl, index) == ChildAt(hp, thisEl, index)

RECURSIVE PatchEdits(_, _, _, _)
\* the loop over edits from position k of instance i's patch(newBlock)
PatchEdits(st, i, newBlock, k) ==
  IF st.err \/ k > Len(EditsOf(st, i)) THEN st
  ELSE IF newBlock.kind # "block" THEN Throw(st)
  ELSE
    LET edit == EditsOf(st, i)[k]
        value == Lookup(st.insts[i].props, edit.hole)
        newValue == Lookup(st.insts[newBlock.inst].props, edit.hole)
        thisEl == CachedElement(st, i, k)
        child == IF thisEl = 0 THEN 0 ELSE DynamicChild(st.heap, thisEl, edit.index)
    IN IF Same(value, newValue) THEN PatchEdits(st, i, newBlock, k + 1)
       ELSE IF edit.type = "attribute"
       THEN IF thisEl = 0 THEN Throw(st)
            ELSE PatchEdits([st EXCEPT !.heap = SetProperty(@, thisEl, edit.attribute, newValue),
                                       !.writes = @ + 1],
                            i, newBlock, k + 1)
       ELSE IF value.kind = "unset" THEN Throw(st)
       ELSE IF value.kind = "block"
       THEN PatchEdits(PatchEdits(st, value.inst, NestedArg(st, newBlock, k), 1),
                       i, newBlock, k + 1)
       ELSE IF child = 0 THEN Throw(st)
       ELSE PatchEdits([st EXCEPT !.heap = SetTextContent(@, child, ToText(newValue)),
                                  !.writes = @ + 1],
                       i, newBlock, k + 1)

\* patch(newBlock) of instance i
PatchBlock(st, i, newBlock) == PatchEdits(st, i, newBlock, 1)

Patch(i, j) ==
  /\ insts[i].def = insts[j].def
  /\ Len(heap) < MaxNodes
  /\ LET st == PatchBlock(Begin, i, Blk(j))
     IN /\ heap' = st.heap
        /\ insts' = st.insts
        /\ lastOp' = [op |-> "patch", inst |-> i, arg |-> j, parent |-> 0,
                      err |-> st.err, writes |-> st.writes]
  /\ UNCHANGED <<defs, nmounts>>

Next ==
  \/ \E t \in DOMAIN Templates : Block(t)
  \/ \E d \in DOMAIN defs : \E p \in PropsFor(d) : Create(d, p)
  \/ \E i \in DOMAIN insts : \E parent \in Hosts : Mount(i, parent)
  \/ \E i \in DOMAIN insts : \E j \in DOMAIN insts : Patch(i, j)

Spec == Init /\ [][Next]_vars

(* ---------------------------------------------------------------------- *)
(* Observations used by the properties                                    *)
(* ---------------------------------------------------------------------- *)
\* the ids of the nodes of the subtree rooted at id
RECURSIVE Nodes(_, _)
Nodes(hp, id) ==
  {id} \cup UNION {Nodes(hp, hp[id].children[k]) : k \in DOMAIN hp[id].children}

\* the subtree rooted at id as a value, node identities left out
RECURSIVE Struct(_, _)
Struct(hp, id) ==
  [kind |-> hp[id].kind, tag |-> hp[id].tag, props |-> hp[id].props, text |-> hp[id].text,
   children |-> [k \in DOMAIN hp[id].children |-> Struct(hp, hp[id].children[k])]]

\* node.textContent
RECURSIVE TextContent(_, _)
RECURSIVE TextOfChildren(_, _, _)
TextContent(hp, id) ==
  IF hp[id].kind = "text" THEN hp[id].text ELSE TextOfChildren(hp, hp[id].children, 1)
TextOfChildren(hp, kids, k) ==
  IF k > Len(kids) THEN "" ELSE TextContent(hp, kids[k]) \o TextOfChildren(hp, kids, k + 1)

\* the element of template vnode at the child-index sequence path, an
\* unset value where the template has none
RECURSIVE TemplateAt(_, _, _)
TemplateAt(vnode, path, k) ==
  IF k > Len(path) THEN vnode
  ELSE IF vnode.kind # "el" \/ path[k] + 1 \notin DOMAIN vnode.children THEN Unset
  ELSE TemplateAt(vnode.children[path[k] + 1], path, k + 1)

IsText(v) == v.kind \in {"str", "num"}
TemplateOf(i) == Templates[defs[insts[i].def].tpl]
Edits(i) == defs[insts[i].def].edits
\* every value instance i holds under a key of its edits is text
AllText(i) == \A k \in DOMAIN Edits(i) : IsText(Lookup(insts[i].props, Edits(i)[k].hole))
Mounted(i) == insts[i].el # 0

NestedPatchPatchesInner ==
  (lastOp.op = "patch" /\ Mounted(lastOp.inst)) =>
    \A k \in DOMAIN Edits(lastOp.inst) :
      LET e == Edits(lastOp.inst)[k]
          old == Lookup(insts[lastOp.inst].props, e.hole)
          new == Lookup(insts[lastOp.arg].props, e.hole)
      IN (e.type = "child" /\ old.kind = "block" /\ new.kind = "block" /\ old # new
          /\ insts[old.inst].def = insts[new.inst].def /\ Mounted(old.inst)) =>
           /\ ~lastOp.err
           /\ \A m \in DOMAIN Edits(old.inst) :
                LET f == Edits(old.inst)[m]
                    c == ChildAt(heap, insts[old.inst].elements[m], f.index)
                IN f.type = "child" =>
                     c # 0 /\ TextContent(heap, c) = ToText(Lookup(insts[new.inst].props, f.hole))

(* ---------------------------------------------------------------------- *)
(* C3  Mount correctness                                                  *)
(* ---------------------------------------------------------------------- *)
\* the tree the template describes once props are filled in
RECURSIVE Expected(_, _)
Expected(vnode, props) ==
  CASE vnode.kind = "text" -> Struct(<<TextNode(vnode.text)>>, 1)
    [] vnode.kind = "hole" -> Struct(<<TextNode(ToText(Lookup(props, vnode.key)))>>, 1)
    [] OTHER ->
         [kind |-> "el", tag |-> vnode.type, text |-> "",
          props |-> [a \in AttrNames |->
                       IF \E k \in DOMAIN vnode.props : vnode.props[k].name = a
                       THEN LET v == (CHOOSE k \in DOMAIN vnode.props : vnode.props[k].name = a)
                            IN IF vnode.props[v].value.kind = "hole"
                               THEN Lookup(props, vnode.props[v].value.key)
                               ELSE vnode.props[v].value
                       ELSE Unset],
          children |-> [k \in DOMAIN vnode.children |-> Expected(vnode.children[k], props)]]

\* C3: after mount(parent) of an instance whose edit values are all text the
\* call has returned without error and the mounted tree, attached to parent,
\* is the template's tree with every placeholder property replaced by
\* props[key] and every placeholder child by a text node of props[key] at
\* the same child index.
MountCorrect ==
  (lastOp.op = "mount" /\ AllText(lastOp.inst)) =>
    /\ ~lastOp.err
    /\ heap[insts[lastOp.inst].el].parent = lastOp.parent
    /\ Struct(heap, insts[lastOp.inst].el) = Expected(TemplateOf(lastOp.inst), insts[lastOp.inst].props)

\* mounted: a template whose placeholder child precedes a static sibling
\* element that owns an edit
MountCorrectWitness ==
  /\ lastOp.op = "mount" /\ ~lastOp.err
  /\ defs[insts[lastOp.inst].def].tpl = 3
  /\ Len(heap[insts[lastOp.inst].el].children) = 3
  /\ heap[ChildAt(heap, insts[lastOp.inst].el, 2)].props["x"] = insts[lastOp.inst].props["m"]

(* ---------------------------------------------------------------------- *)
(* C4  Edit addressing                                                    *)
(* ---------------------------------------------------------------------- *)
\* the node render built for the template element at path: below each
\* element, the i-th template child is the skeleton child numbered by the
\* non-placeholder children before it
RECURSIVE OwnerNode(_, _, _, _, _)
OwnerNode(hp, node, vnode, path, k) ==
  IF k > Len(path) \/ node = 0 THEN node
  ELSE LET i == path[k]
           static == Cardinality({j \in 1..i : vnode.children[j].kind # "hole"})
       IN OwnerNode(hp, ChildAt(hp, node, static), vnode.children[i + 1], path, k + 1)

\* C4: for every compiled block and every edit, descending the edit's path
\* by child index through an unmodified deep clone of the skeleton reaches an
\* existing node, the one that stands for the element owning the edit.
EditPathsAddressSkeleton ==
  \A d \in DOMAIN defs :
    \A k \in DOMAIN defs[d].edits :
      LET c == CloneNode(heap, defs[d].root)
          w == Walk(c.heap, c.id, defs[d].edits[k].path, 1)
      IN /\ ~w.err
         /\ w.node # 0
         /\ w.node = OwnerNode(c.heap, c.id, Templates[defs[d].tpl], defs[d].edits[k].path, 1)

(* ---------------------------------------------------------------------- *)
(* C5  Patch dirty check                                                  *)
(* ---------------------------------------------------------------------- *)
\* the two instances hold identical values under every edit key
SameProps(i, j) ==
  \A k \in DOMAIN Edits(i) :
    Lookup(insts[i].props, Edits(i)[k].hole) = Lookup(insts[j].props, Edits(i)[k].hole)

\* what one step must keep for PatchDirtyCheck
DirtyCheckStep ==
  (lastOp'.op = "patch" /\ Mounted(lastOp'.inst) /\ SameProps(lastOp'.inst, lastOp'.arg)) =>
    /\ heap' = heap
    /\ insts' = insts
    /\ lastOp'.writes = 0
    /\ ~lastOp'.err
\* C5: a patch of a mounted instance against itself or against an instance
\* with identical props under every edit key writes nothing: no node of the
\* document changes or is created, the write counter stays 0, no cached
\* reference changes and the call returns.
PatchDirtyCheck == [][DirtyCheckStep]_vars

\* a mounted instance was patched against another instance with equal props
PatchDirtyCheckWitness ==
  /\ lastOp.op = "patch" /\ Mounted(lastOp.inst)
  /\ lastOp.inst # lastOp.arg
  /\ Edits(lastOp.inst) # <<>>
  /\ SameProps(lastOp.inst, lastOp.arg)
  /\ lastOp.writes = 0

(* ---------------------------------------------------------------------- *)
(* C6  Unmounted patch                                                    *)
(* ---------------------------------------------------------------------- *)
\* C6: a patch of an instance that was never mounted ends in an error, for
\* every argument instance of the same definition.
UnmountedPatchReported ==
  (lastOp.op = "patch" /\ ~Mounted(lastOp.inst)) => lastOp.err

(* ---------------------------------------------------------------------- *)
(* C7  Skeleton immutability                                              *)
(* ---------------------------------------------------------------------- *)
\* what one step must keep for SkeletonImmutable
SkeletonStep ==
  \A d \in DOMAIN defs :
    /\ d \in DOMAIN defs' /\ defs'[d] = defs[d]
    /\ \A n \in Nodes(heap, defs[d].root) : heap'[n] = heap[n]
\* C7: whatever was constructed, mounted and patched, every node of every
\* definition's skeleton and the definition's edit list are as compilation
\* left them.
SkeletonImmutable == [][SkeletonStep]_vars

\* a nested block was mounted and a call ended in an error
SkeletonImmutableWitness ==
  /\ lastOp.op = "patch" /\ lastOp.err
  /\ \E i \in DOMAIN insts :
       /\ Mounted(i)
       /\ heap[insts[i].el].parent \notin Hosts \cup {0}
  /\ \A d \in DOMAIN defs :
       Struct(heap, defs[d].root) = Struct(Compile(<<>>, defs[d].tpl).heap, 1)

(* ---------------------------------------------------------------------- *)
(* C8  Clone independence                                                 *)
(* ---------------------------------------------------------------------- *)
\* i and j are two instances of one definition mounted under two hosts
TwoMounted(hp, ins, i, j) ==
  /\ i # j /\ ins[i].def = ins[j].def
  /\ ins[i].el # 0 /\ ins[j].el # 0
  /\ hp[ins[i].el].parent \in Hosts /\ hp[ins[j].el].parent \in Hosts
  /\ hp[ins[i].el].parent # hp[ins[j].el].parent

\* what one step must keep for CloneIndependence
CloneStep ==
  \A i, j \in DOMAIN insts' :
    TwoMounted(heap', insts', i, j) =>
      /\ Nodes(heap', insts'[i].el) \cap Nodes(heap', insts'[j].el) = {}
      /\ (lastOp'.op = "mount" /\ lastOp'.inst = j /\ lastOp.op = "mount" /\ lastOp.inst = i
          /\ insts'[i].props = insts'[j].props) =>
           Struct(heap', insts'[i].el) = Struct(heap', insts'[j].el)
      /\ (lastOp'.op = "patch" /\ lastOp'.inst = i /\ TwoMounted(heap, insts, i, j)) =>
           \A n \in Nodes(heap, insts[j].el) : heap'[n] = heap[n]
\* C8: two instances of one definition mounted into two different parents
\* share no node; mounted one after the other with equal props their trees
\* are structurally identical; and a patch of one changes no node of the
\* other's tree.
CloneIndependence == [][CloneStep]_vars

\* one of two mounted instances was patched against the other and now shows
\* the other's text, while the other's tree is as its own mount left it
CloneIndependenceWitness ==
  /\ lastOp.op = "patch" /\ lastOp.writes > 0
  /\ TwoMounted(heap, insts, lastOp.inst, lastOp.arg)
  /\ insts[lastOp.arg].props # insts[lastOp.inst].props
  /\ Struct(heap, insts[lastOp.arg].el) = Expected(TemplateOf(lastOp.arg), insts[lastOp.arg].props)
  /\ Struct(heap, insts[lastOp.inst].el) = Struct(heap, insts[lastOp.arg].el)

(* ---------------------------------------------------------------------- *)
(* C9  Mount owns its mount point                                         *)
(* ---------------------------------------------------------------------- *)
\* what one step must keep for MountOwnsParent
MountPointStep ==
  lastOp'.op = "mount" =>
    LET el == insts'[lastOp'.inst].el
    IN /\ heap'[lastOp'.parent].children = <<el>>
       /\ heap'[el].parent = lastOp'.parent
       /\ el > Len(heap)
       /\ heap'[el].tag = heap[defs[insts[lastOp'.inst].def].root].tag
\* C9: right after a top-level mount(parent) the only child of parent is
\* the root of the instance's tree, a node that did not exist before the
\* call, whatever parent held before.
MountOwnsParent == [][MountPointStep]_vars

\* a block was mounted over the tree of a previously mounted block
MountOwnsParentWitness ==
  /\ lastOp.op = "mount"
  /\ nmounts = 2
  /\ \E i \in DOMAIN insts :
       /\ i # lastOp.inst /\ Mounted(i)
       /\ heap[insts[i].el].parent = 0
  /\ heap[lastOp.parent].children = <<insts[lastOp.inst].el>>

(* ---------------------------------------------------------------------- *)
(* C10  Compiler edit list                                                *)
(* ---------------------------------------------------------------------- *)
\* number of placeholders in a template tree
RECURSIVE HoleCount(_)
RECURSIVE HoleCountChildren(_, _)
HoleCount(vnode) ==
  IF vnode.kind = "hole" THEN 1
  ELSE IF vnode.kind = "text" THEN 0
  ELSE Cardinality({k \in DOMAIN vnode.props : vnode.props[k].value.kind = "hole"})
       + HoleCountChildren(vnode.children, 1)
HoleCountChildren(children, k) ==
  IF k > Len(children) THEN 0 ELSE HoleCount(children[k]) + HoleCountChildren(children, k + 1)

\* the placeholder an edit stands for, in template tpl
EditHits(tpl, e) ==
  LET owner == TemplateAt(tpl, e.path, 1)
  IN /\ owner.kind = "el"
     /\ IF e.type = "attribute"
        THEN \E k \in DOMAIN owner.props :
               owner.props[k].name = e.attribute /\ owner.props[k].value = Hole(e.hole)
        ELSE /\ e.index + 1 \in DOMAIN owner.children
             /\ owner.children[e.index + 1] = Hole(e.hole)

\* document position of an edit: its path followed by the child index, or
\* for an attribute edit by a negative number ordering the owner's properties
DocPos(tpl, e) ==
  LET owner == TemplateAt(tpl, e.path, 1)
  IN IF e.type = "child" THEN Append(e.path, e.index)
     ELSE Append(e.path,
                 (CHOOSE k \in DOMAIN owner.props : owner.props[k].name = e.attribute)
                   - Len(owner.props) - 1)

\* p comes strictly before q in depth-first order
Before(p, q) ==
  \E n \in 1..Len(p) :
    /\ \A m \in 1..(n - 1) : m \in DOMAIN q /\ q[m] = p[m]
    /\ n \in DOMAIN q
    /\ p[n] < q[n]

IsStatic(vnode) == vnode.kind # "hole"

\* the static part of a template: placeholder properties unassigned,
\* placeholder children left out, everything else with its template value
RECURSIVE StaticPart(_)
StaticPart(vnode) ==
  IF vnode.kind = "text" THEN Struct(<<TextNode(vnode.text)>>, 1)
  ELSE LET kept == SelectSeq(vnode.children, IsStatic)
       IN [kind |-> "el", tag |-> vnode.type, text |-> "",
           props |-> [a \in AttrNames |->
                        IF \E k \in DOMAIN vnode.props :
                             vnode.props[k].name = a /\ IsStatic(vnode.props[k].value)
                        THEN vnode.props[CHOOSE k \in DOMAIN vnode.props :
                                           vnode.props[k].name = a].value
                        ELSE Unset],
           children |-> [k \in DOMAIN kept |-> StaticPart(kept[k])]]

\* C11: the skeleton of every compiled template holds no placeholder: no
\* property of a skeleton node is a placeholder, no node stands for a
\* placeholder child, and every static property and static child of the
\* template is there with its template value.
SkeletonPure ==
  \A d \in DOMAIN defs :
    /\ \A n \in Nodes(heap, defs[d].root) :
         \A a \in AttrNames : heap[n].props[a].kind # "hole"
    /\ Struct(heap, defs[d].root) = StaticPart(Templates[defs[d].tpl])

\* compiled: a template with a static property, a placeholder child between
\* static children and a placeholder property on a child element
SkeletonPureWitness ==
  \E d \in DOMAIN defs :
    /\ defs[d].tpl = 3
    /\ Len(heap[defs[d].root].children) = 2
    /\ heap[defs[d].root].props["id"] = Str("foo")
    /\ heap[ChildAt(heap, defs[d].root, 1)].tag = "span"
    /\ heap[ChildAt(heap, defs[d].root, 1)].props["x"] = Unset

(* ---------------------------------------------------------------------- *)
(* C12  Latest patch wins                                                 *)
(* ---------------------------------------------------------------------- *)
\* C12: after a patch of a mounted instance against an instance of the same
\* definition, both with text or attribute values only, the call has
\* returned without error and every dynamic slot of the mounted tree shows
\* the value from the argument's props, whatever was patched before.
LatestPatchWins ==
  (lastOp.op = "patch" /\ Mounted(lastOp.inst)
   /\ AllText(lastOp.inst) /\ AllText(lastOp.arg)) =>
    /\ ~lastOp.err
    /\ \A k \in DOMAIN Edits(lastOp.inst) :
         LET e == Edits(lastOp.inst)[k]
             b == Lookup(insts[lastOp.arg].props, e.hole)
             thisEl == insts[lastOp.inst].elements[k]
         IN /\ thisEl # 0
            /\ IF e.type = "attribute"
               THEN heap[thisEl].props[e.attribute] = b
               ELSE LET c == ChildAt(heap, thisEl, e.index)
                    IN c # 0 /\ TextContent(heap, c) = ToText(b)

(* ---------------------------------------------------------------------- *)
(* C13  Nested mount keeps the surrounding structure                      *)
(* ---------------------------------------------------------------------- *)
\* some child of element el is a text node showing s
HasTextChild(hp, el, s) ==
  \E c \in 1..Len(hp[el].children) :
    hp[hp[el].children[c]].kind = "text" /\ hp[hp[el].children[c]].text = s

\* C13: after mount of an outer instance in which a child edit's value is a
\* nested block instance, the call has returned without error, the addressed
\* element still holds every static text child of its template element and
\* every dynamic text node inserted by an earlier edit, and every later edit
\* has resolved to an existing element with the tag of the template element
\* that owns it.
NestedMountKeepsStructure ==
  lastOp.op = "mount" =>
    LET i == lastOp.inst
    IN \A k \in DOMAIN Edits(i) :
         LET e == Edits(i)[k]
             owner == TemplateAt(TemplateOf(i), e.path, 1)
             thisEl == insts[i].elements[k]
         IN (e.type = "child" /\ Lookup(insts[i].props, e.hole).kind = "block") =>
              /\ ~lastOp.err
              /\ thisEl # 0
              /\ \A c \in DOMAIN owner.children :
                   owner.children[c].kind = "text" =>
                     HasTextChild(heap, thisEl, owner.children[c].text)
              /\ \A m \in 1..(k - 1) :
                   LET f == Edits(i)[m]
                       v == Lookup(insts[i].props, f.hole)
                   IN (f.type = "child" /\ f.path = e.path /\ IsText(v)) =>
                        HasTextChild(heap, thisEl, ToText(v))
              /\ \A m \in (k + 1)..Len(Edits(i)) :
                   /\ insts[i].elements[m] # 0
                   /\ heap[insts[i].elements[m]].tag =
                        TemplateAt(TemplateOf(i), Edits(i)[m].path, 1).type

(* ---------------------------------------------------------------------- *)
(* The naive tree-diff kept beside the block implementation               *)
(* ---------------------------------------------------------------------- *)
\* a props object without keys
NoProps == [a \in {} |-> Unset]

\* m(tag, props, children); a string child is T(s), undefined is Unset
m(tag, props, children) ==
  [kind |-> "el", tag |-> tag, props |-> props, children |-> children]

\* properties the element's prototype defines as accessors: delete el[prop]
\* removes own properties only and leaves these as they are
Reflected == {"id"}
DeleteProperty(hp, el, name) ==
  IF name \in Reflected THEN hp ELSE [hp EXCEPT ![el].props[name] = Unset]

\* el.remove()
Remove(hp, el) ==
  LET parent == hp[el].parent
  IN IF parent = 0 THEN hp
     ELSE [hp EXCEPT ![parent].children = SelectSeq(@, LAMBDA c : c # el),
                     ![el].parent = 0]

\* el.replaceWith(node) for a parentless node
ReplaceWith(hp, el, node) ==
  LET parent == hp[el].parent
  IN IF parent = 0 THEN hp
     ELSE [hp EXCEPT ![parent].children = [k \in DOMAIN @ |-> IF @[k] = el THEN node ELSE @[k]],
                     ![el].parent = 0,
                     ![node].parent = parent]

\* createElement(vnode): [heap, id, err]
RECURSIVE createElement(_, _)
RECURSIVE CreateChildren(_, _, _, _)
createElement(hp, vnode) ==
  IF vnode.kind = "text"
  THEN [heap |-> Append(hp, TextNode(vnode.text)), id |-> Len(hp) + 1, err |-> FALSE]
  ELSE IF vnode.kind # "el" THEN [heap |-> hp, id |-> 0, err |-> TRUE]
  ELSE LET el == Len(hp) + 1
           hp1 == Append(hp, [ElementNode(vnode.tag) EXCEPT
                                !.props = [a \in AttrNames |-> Lookup(vnode.props, a)]])
       IN CreateChildren(hp1, vnode.children, 1, el)
\* the loop over vnode.children from position k
CreateChildren(hp, children, k, el) ==
  IF k > Len(children) THEN [heap |-> hp, id |-> el, err |-> FALSE]
  ELSE LET c == createElement(hp, children[k])
       IN IF c.err THEN [heap |-> c.heap, id |-> el, err |-> TRUE]
          ELSE CreateChildren(AppendChild(c.heap, el, c.id), children, k + 1, el)

\* replace(): el.replaceWith(createElement(newVNode))
replace(st, el, newVNode) ==
  LET c == createElement(st.heap, newVNode)
  IN IF el = 0 \/ c.err THEN Throw([st EXCEPT !.heap = c.heap])
     ELSE [st EXCEPT !.heap = ReplaceWith(c.heap, el, c.id)]

\* the loop over { ...oldVNode.props, ...newVNode.props }
PatchProps(hp, el, newVNode, oldVNode) ==
  [hp EXCEPT ![el].props =
     [a \in AttrNames |->
        LET old == Lookup(oldVNode.props, a)
            new == Lookup(newVNode.props, a)
        IN IF old = Unset /\ new = Unset THEN hp[el].props[a]
           ELSE IF new = Unset THEN DeleteProperty(hp, el, a)[el].props[a]
           ELSE IF old = Unset \/ old # new THEN new
           ELSE hp[el].props[a]]]

\* vnode.children[i]; undefined past the end
VChild(vnode, i) ==
  IF i + 1 \in DOMAIN vnode.children THEN vnode.children[i + 1] ELSE Unset

\* patch(el, newVNode, oldVNode) on st = [heap, err]
RECURSIVE patch(_, _, _, _)
RECURSIVE PatchChildren(_, _, _, _, _)
RECURSIVE AppendChildren(_, _, _, _)
patch(st, el, newVNode, oldVNode) ==
  IF st.err THEN st
  ELSE IF el = 0 THEN Throw(st)
  ELSE
    LET st1 == IF newVNode.kind = "unset"
               THEN [st EXCEPT !.heap = Remove(@, el)]
               ELSE st
    IN IF oldVNode.kind = "text" \/ newVNode.kind = "text"
       THEN IF oldVNode # newVNode THEN replace(st1, el, newVNode)
            \* equal strings fall through to oldVNode.children.length
            ELSE Throw(st1)
       \* newVNode.tag of undefined
       ELSE IF newVNode.kind = "unset" THEN Throw(st1)
       ELSE IF oldVNode.tag # newVNode.tag THEN replace(st1, el, newVNode)
       ELSE AppendChildren(
              PatchChildren([st1 EXCEPT !.heap = PatchProps(@, el, newVNode, oldVNode)],
                            el, newVNode, oldVNode, Len(oldVNode.children) - 1),
              el, newVNode, Len(oldVNode.children))
\* for (i = oldVNode.children.length - 1; i >= 0; --i)
PatchChildren(st, el, newVNode, oldVNode, i) ==
  IF st.err \/ i < 0 THEN st
  ELSE PatchChildren(patch(st, ChildAt(st.heap, el, i), VChild(newVNode, i), VChild(oldVNode, i)),
                     el, newVNode, oldVNode, i - 1)
\* for (i = oldVNode.children.length; i < newVNode.children.length; i++)
AppendChildren(st, el, newVNode, i) ==
  IF st.err \/ i >= Len(newVNode.children) THEN st
  ELSE LET c == createElement(st.heap, VChild(newVNode, i))
       IN IF c.err THEN Throw([st EXCEPT !.heap = c.heap])
          ELSE AppendChildren([st EXCEPT !.heap = AppendChild(c.heap, el, c.id)],
                              el, newVNode, i + 1)

\* the element virtual nodes the page is built from and patched to
VNodes ==
  { m("div", NoProps, <<>>),
    m("div", NoProps, <<T("a")>>),
    m("div", NoProps, <<T("b")>>),
    m("div", NoProps, <<T("a"), T("b")>>),
    m("p", NoProps, <<T("a")>>),
    m("div", [x |-> Str("1")], <<>>),
    m("div", [x |-> Str("2")], <<>>),
    m("div", [id |-> Str("foo")], <<>>),
    m("div", NoProps, <<m("span", NoProps, <<>>)>>),
    m("div", NoProps, <<m("p", NoProps, <<>>)>>),
    m("div", NoProps, <<m("span", [x |-> Str("1")], <<>>)>>),
    m("div", NoProps, <<m("span", NoProps, <<>>), m("p", NoProps, <<>>)>>),
    m("div", NoProps, <<T("a"), m("span", NoProps, <<>>)>> ) }

\* no call made yet
NoCall == [op |-> "none", parent |-> 0, pos |-> 0, old |-> Unset, new |-> Unset, err |-> FALSE]

InitDiff ==
  /\ heap = InitHeap
  /\ defs = <<>>
  /\ insts = <<>>
  /\ nmounts = 0
  /\ lastOp = NoCall

\* el = createElement(vnode); parent.appendChild(el)
VCreate(vnode, parent) ==
  /\ lastOp.op = "none"
  /\ LET c == createElement(heap, vnode)
     IN /\ heap' = AppendChild(c.heap, parent, c.id)
        /\ lastOp' = [op |-> "create", parent |-> parent, pos |-> Len(heap[parent].children),
                      old |-> vnode, new |-> vnode, err |-> c.err]
  /\ UNCHANGED <<defs, insts, nmounts>>

\* patch(el, newVNode, oldVNode) for the el created from oldVNode
VPatch(newVNode) ==
  /\ lastOp.op = "create"
  /\ LET el == ChildAt(heap, lastOp.parent, lastOp.pos)
         st == patch([heap |-> heap, err |-> FALSE], el, newVNode, lastOp.new)
     IN /\ heap' = st.heap
        /\ lastOp' = [lastOp EXCEPT !.op = "patch", !.old = lastOp.new, !.new = newVNode,
                                    !.err = st.err]
  /\ UNCHANGED <<defs, insts, nmounts>>

NextDiff ==
  \/ \E vnode \in VNodes : \E parent \in Hosts : VCreate(vnode, parent)
  \/ \E newVNode \in VNodes : VPatch(newVNode)

SpecDiff == InitDiff /\ [][NextDiff]_vars

(* ---------------------------------------------------------------------- *)
(* C14  Naive tree-diff result                                            *)
(* ---------------------------------------------------------------------- *)
\* C14: after patch(el, new, old) for el = createElement(old) attached to a
\* parent, the call has returned without error and the node at el's position
\* in the parent is structurally equal to createElement(new).
TreeDiffResult ==
  lastOp.op = "patch" =>
    LET at == ChildAt(heap, lastOp.parent, lastOp.pos)
        c == createElement(<<>>, lastOp.new)
    IN /\ ~lastOp.err
       /\ at # 0
       /\ Struct(heap, at) = Struct(c.heap, c.id)

====
